---- MODULE Spec2Model ----
(***************************************************************************)
(* Model of the analysis engine of app.py: analyze_document (sentence     *)
(* matching against the tiered pattern table, scoring, risk level,        *)
(* findings, clause extraction) and the overall score computed by         *)
(* display_analysis_results.                                              *)
(*                                                                         *)
(* A document is the ordered list of sentences that sent_tokenize (NLTK,  *)
(* outside the repository) returns for it.  A sentence is an index into   *)
(* Pool; its text is Pool[i], a sequence of characters.  Scores are       *)
(* Python floats obtained from integer counts; they are kept as exact     *)
(* fractions [num, den].                                                   *)
(***************************************************************************)
EXTENDS Integers, Sequences, FiniteSets, TLC

\* Largest number of sentences of a document.
MaxSentences == 4

\* The keys of results / patterns, in declaration (insertion) order.
CategoryOrder ==
  <<"data_collection", "data_sharing", "data_security",
    "user_rights", "liability", "policy_changes">>

Categories == {CategoryOrder[k] : k \in 1..Len(CategoryOrder)}

Tiers == {"high_risk", "medium_risk", "low_risk", "general"}

RiskLevels == {"Low", "Medium", "High"}

\* Sentence texts the documents are built from.
Pool ==
  <<
     \* 'We use advanced encryption and conduct regular audits.'
     <<"W","e"," ","u","s","e"," ","a","d","v","a","n","c","e","d"," ","e","n","c","r","y","p","t","i","o","n"," ","a","n","d"," ","c","o","n","d","u","c","t"," ","r","e","g","u","l","a","r"," ","a","u","d","i","t","s",".">>,
     \* 'We collect your personal information.'
     <<"W","e"," ","c","o","l","l","e","c","t"," ","y","o","u","r"," ","p","e","r","s","o","n","a","l"," ","i","n","f","o","r","m","a","t","i","o","n",".">>,
     \* 'We may sell your personal data to third parties without notice.'
     <<"W","e"," ","m","a","y"," ","s","e","l","l"," ","y","o","u","r"," ","p","e","r","s","o","n","a","l"," ","d","a","t","a"," ","t","o"," ","t","h","i","r","d"," ","p","a","r","t","i","e","s"," ","w","i","t","h","o","u","t"," ","n","o","t","i","c","e",".">>,
     \* 'You have no right to access your data.'
     <<"Y","o","u"," ","h","a","v","e"," ","n","o"," ","r","i","g","h","t"," ","t","o"," ","a","c","c","e","s","s"," ","y","o","u","r"," ","d","a","t","a",".">>,
     \* 'We collect\npersonal information.'
     <<"W","e"," ","c","o","l","l","e","c","t","\n","p","e","r","s","o","n","a","l"," ","i","n","f","o","r","m","a","t","i","o","n",".">>,
     \* 'We are not liable and may modify terms at any time.'
     <<"W","e"," ","a","r","e"," ","n","o","t"," ","l","i","a","b","l","e"," ","a","n","d"," ","m","a","y"," ","m","o","d","i","f","y"," ","t","e","r","m","s"," ","a","t"," ","a","n","y"," ","t","i","m","e",".">>,
     \* 'Thank you for reading.'
     <<"T","h","a","n","k"," ","y","o","u"," ","f","o","r"," ","r","e","a","d","i","n","g",".">>,
     \* 'You have the right to delete your data and we are not liable.'
     <<"Y","o","u"," ","h","a","v","e"," ","t","h","e"," ","r","i","g","h","t"," ","t","o"," ","d","e","l","e","t","e"," ","y","o","u","r"," ","d","a","t","a"," ","a","n","d"," ","w","e"," ","a","r","e"," ","n","o","t"," ","l","i","a","b","l","e",".">>
  >>

\* The pattern table of analyze_document.
patterns ==
  [
    data_collection |-> [
      high_risk |-> <<
         <<"c","o","l","l","e","c","t",".","*","b","i","o","m","e","t","r","i","c">>,
         <<"f","a","c","i","a","l"," ","r","e","c","o","g","n","i","t","i","o","n">>,
         <<"t","r","a","c","k",".","*","e","x","a","c","t"," ","l","o","c","a","t","i","o","n">>,
         <<"m","o","n","i","t","o","r",".","*","a","c","t","i","v","i","t","y">>,
         <<"r","e","c","o","r","d",".","*","c","o","n","v","e","r","s","a","t","i","o","n","s">>,
         <<"s","t","o","r","e",".","*","i","n","d","e","f","i","n","i","t","e","l","y">>,
         <<"c","o","l","l","e","c","t",".","*","w","i","t","h","o","u","t",".","*","c","o","n","s","e","n","t">>
      >>,
      medium_risk |-> <<
         <<"c","o","l","l","e","c","t",".","*","p","e","r","s","o","n","a","l"," ","i","n","f","o","r","m","a","t","i","o","n">>,
         <<"s","t","o","r","e",".","*","d","a","t","a">>,
         <<"c","o","o","k","i","e","s">>,
         <<"t","r","a","c","k",".","*","u","s","a","g","e">>,
         <<"r","e","t","a","i","n",".","*","i","n","f","o","r","m","a","t","i","o","n">>,
         <<"c","o","l","l","e","c","t",".","*","I","P"," ","a","d","d","r","e","s","s">>,
         <<"a","n","a","l","y","t","i","c","s">>
      >>,
      low_risk |-> <<
         <<"a","n","o","n","y","m","o","u","s",".","*","d","a","t","a">>,
         <<"a","g","g","r","e","g","a","t","e",".","*","i","n","f","o","r","m","a","t","i","o","n">>,
         <<"d","e","-","i","d","e","n","t","i","f","i","e","d">>,
         <<"l","i","m","i","t","e","d",".","*","r","e","t","e","n","t","i","o","n">>,
         <<"m","i","n","i","m","a","l",".","*","c","o","l","l","e","c","t","i","o","n">>
      >>,
      general |-> <<
         <<"c","o","l","l","e","c","t">>,
         <<"i","n","f","o","r","m","a","t","i","o","n">>,
         <<"d","a","t","a">>,
         <<"t","r","a","c","k">>,
         <<"c","o","o","k","i","e">>,
         <<"r","e","t","e","n","t","i","o","n">>
      >>
    ],
    data_sharing |-> [
      high_risk |-> <<
         <<"s","e","l","l",".","*","p","e","r","s","o","n","a","l",".","*","d","a","t","a">>,
         <<"s","h","a","r","e",".","*","w","i","t","h",".","*","t","h","i","r","d",".","p","a","r","t","i","e","s">>,
         <<"t","r","a","n","s","f","e","r",".","*","o","w","n","e","r","s","h","i","p">>,
         <<"d","i","s","c","l","o","s","e",".","*","i","n","f","o","r","m","a","t","i","o","n">>,
         <<"p","r","o","v","i","d","e",".","*","t","o",".","*","a","d","v","e","r","t","i","s","e","r","s">>,
         <<"s","h","a","r","e",".","*","w","i","t","h","o","u","t",".","*","n","o","t","i","c","e">>
      >>,
      medium_risk |-> <<
         <<"s","h","a","r","e",".","*","w","i","t","h",".","*","p","a","r","t","n","e","r","s">>,
         <<"t","h","i","r","d",".","p","a","r","t","y",".","*","s","e","r","v","i","c","e">>,
         <<"a","f","f","i","l","i","a","t","e","s">>,
         <<"b","u","s","i","n","e","s","s",".","*","p","a","r","t","n","e","r","s">>,
         <<"v","e","n","d","o","r","s">>
      >>,
      low_risk |-> <<
         <<"s","h","a","r","e",".","*","o","n","l","y"," ","w","i","t","h"," ","c","o","n","s","e","n","t">>,
         <<"l","i","m","i","t","e","d",".","*","s","h","a","r","i","n","g">>,
         <<"o","p","t",".","o","u","t">>,
         <<"c","o","n","t","r","o","l",".","*","o","v","e","r",".","*","s","h","a","r","i","n","g">>,
         <<"a","n","o","n","y","m","i","z","e","d",".","*","b","e","f","o","r","e",".","*","s","h","a","r","i","n","g">>
      >>,
      general |-> <<
         <<"s","h","a","r","e">>,
         <<"t","h","i","r","d",".","p","a","r","t","y">>,
         <<"p","a","r","t","n","e","r","s">>,
         <<"t","r","a","n","s","f","e","r">>,
         <<"d","i","s","c","l","o","s","e">>
      >>
    ],
    data_security |-> [
      high_risk |-> <<
         <<"n","o",".","*","g","u","a","r","a","n","t","e","e",".","*","s","e","c","u","r","i","t","y">>,
         <<"n","o","t",".","*","r","e","s","p","o","n","s","i","b","l","e",".","*","f","o","r",".","*","b","r","e","a","c","h","e","s">>,
         <<"a","s",".","i","s">>,
         <<"d","i","s","c","l","a","i","m",".","*","s","e","c","u","r","i","t","y">>,
         <<"s","e","c","u","r","i","t","y",".","*","n","o","t",".","*","g","u","a","r","a","n","t","e","e","d">>
      >>,
      medium_risk |-> <<
         <<"r","e","a","s","o","n","a","b","l","e",".","*","s","e","c","u","r","i","t","y">>,
         <<"i","n","d","u","s","t","r","y",".","*","s","t","a","n","d","a","r","d">>,
         <<"e","n","c","r","y","p","t","i","o","n">>,
         <<"s","a","f","e","g","u","a","r","d","s">>,
         <<"s","e","c","u","r","i","t","y",".","*","m","e","a","s","u","r","e","s">>
      >>,
      low_risk |-> <<
         <<"a","d","v","a","n","c","e","d",".","*","e","n","c","r","y","p","t","i","o","n">>,
         <<"r","o","b","u","s","t",".","*","s","e","c","u","r","i","t","y">>,
         <<"r","e","g","u","l","a","r",".","*","a","u","d","i","t","s">>,
         <<"p","r","o","m","p","t","l","y",".","*","n","o","t","i","f","y",".","*","b","r","e","a","c","h">>,
         <<"c","o","m","p","r","e","h","e","n","s","i","v","e",".","*","s","e","c","u","r","i","t","y",".","*","f","r","a","m","e","w","o","r","k">>
      >>,
      general |-> <<
         <<"s","e","c","u","r","i","t","y">>,
         <<"p","r","o","t","e","c","t">>,
         <<"e","n","c","r","y","p","t","i","o","n">>,
         <<"b","r","e","a","c","h">>,
         <<"s","a","f","e","g","u","a","r","d">>
      >>
    ],
    user_rights |-> [
      high_risk |-> <<
         <<"n","o",".","*","r","i","g","h","t",".","*","t","o",".","*","a","c","c","e","s","s">>,
         <<"c","a","n","n","o","t",".","*","d","e","l","e","t","e">>,
         <<"w","a","i","v","e",".","*","r","i","g","h","t","s">>,
         <<"n","o",".","*","c","o","n","t","r","o","l">>,
         <<"s","u","r","r","e","n","d","e","r",".","*","r","i","g","h","t","s">>
      >>,
      medium_risk |-> <<
         <<"m","a","y",".","*","r","e","q","u","e","s","t",".","*","d","e","l","e","t","i","o","n">>,
         <<"c","o","n","t","a","c","t",".","*","u","s",".","*","t","o",".","*","a","c","c","e","s","s">>,
         <<"l","i","m","i","t","e","d",".","*","c","o","n","t","r","o","l">>,
         <<"s","o","m","e",".","*","r","i","g","h","t","s">>
      >>,
      low_risk |-> <<
         <<"r","i","g","h","t",".","*","t","o",".","*","a","c","c","e","s","s">>,
         <<"r","i","g","h","t",".","*","t","o",".","*","d","e","l","e","t","e">>,
         <<"c","o","n","t","r","o","l",".","*","y","o","u","r",".","*","d","a","t","a">>,
         <<"m","a","n","a","g","e",".","*","p","r","e","f","e","r","e","n","c","e","s">>,
         <<"G","D","P","R">>,
         <<"C","C","P","A">>
      >>,
      general |-> <<
         <<"r","i","g","h","t","s">>,
         <<"a","c","c","e","s","s">>,
         <<"d","e","l","e","t","e">>,
         <<"c","o","n","t","r","o","l">>,
         <<"r","e","q","u","e","s","t">>,
         <<"o","p","t",".","o","u","t">>
      >>
    ],
    liability |-> [
      high_risk |-> <<
         <<"n","o","t",".","*","l","i","a","b","l","e">>,
         <<"d","i","s","c","l","a","i","m",".","*","a","l","l",".","*","l","i","a","b","i","l","i","t","y">>,
         <<"n","o",".","*","w","a","r","r","a","n","t","i","e","s">>,
         <<"n","o",".","*","r","e","s","p","o","n","s","i","b","i","l","i","t","y">>,
         <<"w","a","i","v","e",".","*","r","i","g","h","t",".","*","t","o",".","*","s","u","e">>
      >>,
      medium_risk |-> <<
         <<"l","i","m","i","t","e","d",".","*","l","i","a","b","i","l","i","t","y">>,
         <<"t","o",".","*","t","h","e",".","*","e","x","t","e","n","t",".","*","p","e","r","m","i","t","t","e","d",".","*","b","y",".","*","l","a","w">>,
         <<"c","a","p",".","*","o","n",".","*","d","a","m","a","g","e","s">>
      >>,
      low_risk |-> <<
         <<"r","e","s","p","o","n","s","i","b","l","e">>,
         <<"a","c","c","o","u","n","t","a","b","l","e">>,
         <<"c","o","m","p","e","n","s","a","t","i","o","n",".","*","f","o","r",".","*","d","a","m","a","g","e","s">>,
         <<"l","i","a","b","i","l","i","t","y",".","*","i","n","s","u","r","a","n","c","e">>
      >>,
      general |-> <<
         <<"l","i","a","b","i","l","i","t","y">>,
         <<"d","i","s","c","l","a","i","m","e","r">>,
         <<"d","a","m","a","g","e","s">>,
         <<"w","a","r","r","a","n","t","y">>,
         <<"r","e","s","p","o","n","s","i","b","l","e">>
      >>
    ],
    policy_changes |-> [
      high_risk |-> <<
         <<"c","h","a","n","g","e",".","*","w","i","t","h","o","u","t",".","*","n","o","t","i","c","e">>,
         <<"m","o","d","i","f","y",".","*","a","t",".","*","a","n","y",".","*","t","i","m","e">>,
         <<"n","o",".","*","n","o","t","i","f","i","c","a","t","i","o","n">>,
         <<"d","e","e","m","e","d",".","*","t","o",".","*","a","c","c","e","p","t",".","*","c","h","a","n","g","e","s">>
      >>,
      medium_risk |-> <<
         <<"p","e","r","i","o","d","i","c","a","l","l","y",".","*","u","p","d","a","t","e">>,
         <<"c","h","e","c","k",".","*","r","e","g","u","l","a","r","l","y">>,
         <<"m","a","y",".","*","n","o","t","i","f","y">>,
         <<"p","o","s","t",".","*","u","p","d","a","t","e","s">>
      >>,
      low_risk |-> <<
         <<"n","o","t","i","f","y",".","*","o","f",".","*","c","h","a","n","g","e","s">>,
         <<"e","m","a","i","l",".","*","a","b","o","u","t",".","*","u","p","d","a","t","e","s">>,
         <<"c","o","n","s","e","n","t",".","*","r","e","q","u","i","r","e","d">>,
         <<"a","d","v","a","n","c","e",".","*","n","o","t","i","c","e">>
      >>,
      general |-> <<
         <<"c","h","a","n","g","e","s">>,
         <<"u","p","d","a","t","e","s">>,
         <<"m","o","d","i","f","y">>,
         <<"r","e","v","i","s","e">>,
         <<"a","m","e","n","d">>
      >>
    ]
  ]

\* re.IGNORECASE: both sides are compared in lower case.
UpperToLower ==
  [A |-> "a", B |-> "b", C |-> "c", D |-> "d", E |-> "e", F |-> "f",
   G |-> "g", H |-> "h", I |-> "i", J |-> "j", K |-> "k", L |-> "l",
   M |-> "m", N |-> "n", O |-> "o", P |-> "p", Q |-> "q", R |-> "r",
   S |-> "s", T |-> "t", U |-> "u", V |-> "v", W |-> "w", X |-> "x",
   Y |-> "y", Z |-> "z"]

Lower(ch) == IF ch \in DOMAIN UpperToLower THEN UpperToLower[ch] ELSE ch

\* Does the regular expression p, from its i-th character on, match s
\* starting at position j?  The patterns use literals, "." (any character
\* but a newline) and ".*".
RECURSIVE match_here(_, _, _, _)
match_here(p, i, s, j) ==
  IF i > Len(p) THEN TRUE
  ELSE IF p[i] = "." /\ i < Len(p) /\ p[i + 1] = "*"
    THEN \E k \in j..(Len(s) + 1) :
            /\ \A q \in j..(k - 1) : s[q] /= "\n"
            /\ match_here(p, i + 2, s, k)
  ELSE IF j > Len(s) THEN FALSE
  ELSE IF p[i] = "."
    THEN s[j] /= "\n" /\ match_here(p, i + 1, s, j + 1)
  ELSE Lower(p[i]) = Lower(s[j]) /\ match_here(p, i + 1, s, j + 1)

\* re.search(pattern, sentence, re.IGNORECASE): an unanchored match.
re_search(p, s) == \E j \in 1..(Len(s) + 1) : match_here(p, 1, s, j)

\* first_match without the break: the sentence is appended once for every
\* pattern of the tier that matches it.
RECURSIVE first_match_nobreak(_, _, _)
first_match_nobreak(pats, s, k) ==
  IF k > Len(pats) THEN 0
  ELSE (IF re_search(pats[k], s) THEN 1 ELSE 0)
         + first_match_nobreak(pats, s, k + 1)

\* The inner "for pattern in pattern_set[tier]" loop: the number of times the
\* sentence s is appended to the tier's match list, scanning the patterns
\* from the k-th on.  The loop breaks at the first pattern that matches.
RECURSIVE first_match(_, _, _)
first_match(pats, s, k) ==
  IF k > Len(pats) THEN 0
  ELSE IF re_search(pats[k], s) THEN 1
  ELSE first_match(pats, s, k + 1)

\* The four inner loops of one sentence for one category.
sentence_tiers(c, s) ==
  [high_risk |-> first_match(patterns[c]["high_risk"], s, 1),
   medium_risk |-> first_match(patterns[c]["medium_risk"], s, 1),
   low_risk |-> first_match(patterns[c]["low_risk"], s, 1),
   general |-> first_match(patterns[c]["general"], s, 1)]

\* ... and for every category.
sentence_appends(s) ==
  [data_collection |-> sentence_tiers("data_collection", s),
   data_sharing |-> sentence_tiers("data_sharing", s),
   data_security |-> sentence_tiers("data_security", s),
   user_rights |-> sentence_tiers("user_rights", s),
   liability |-> sentence_tiers("liability", s),
   policy_changes |-> sentence_tiers("policy_changes", s)]

RECURSIVE pool_appends(_)
pool_appends(n) ==
  IF n = 0 THEN <<>> ELSE Append(pool_appends(n - 1), sentence_appends(Pool[n]))

\* The appends of every sentence text, by category and tier (a table
\* evaluated once: the regular expressions give the same answer on every
\* call).
appends == pool_appends(Len(Pool))

\* n copies of position pos.
repeat(pos, n) == [k \in 1..n |-> pos]

\* The "for sentence in sentences" loop for one category and tier: the match
\* list after the first n sentences, as the positions of the appended
\* sentences (the list itself holds the texts sentences[pos]).
RECURSIVE tier_matches(_, _, _, _)
tier_matches(c, t, sents, n) ==
  IF n = 0 THEN <<>>
  ELSE tier_matches(c, t, sents, n - 1) \o repeat(n, appends[sents[n]][c][t])

\* The four match lists of a category.
match_lists(c, sents) ==
  [t \in Tiers |-> tier_matches(c, t, sents, Len(sents))]

\* A score is a fraction num/den (Python: an int or the float result of /).
Frac(n, d) == [num |-> n, den |-> d]

\* Score without the total_matches > 0 test: the division is always made.
Score_unguarded(h, m, l, g) == Frac(h * 100 + m * 50, h + m + l)

\* Score with the low-risk matches weighted 25 instead of 0.
Score_low_weighted(h, m, l, g) ==
  LET total_matches == h + m + l
  IN  IF total_matches > 0
        THEN Frac(h * 100 + m * 50 + l * 25, total_matches)
        ELSE IF g > 0 THEN Frac(50, 1) ELSE Frac(0, 1)

\* Score falling back to 50 whenever no risk tier matched, without looking
\* at the general matches.
Score_default_medium(h, m, l, g) ==
  LET total_matches == h + m + l
  IN  IF total_matches > 0
        THEN Frac(h * 100 + m * 50, total_matches)
        ELSE Frac(50, 1)

\* The normalized score of a category from its match counts.  A division by
\* total_matches = 0 shows as den = 0.
Score(h, m, l, g) ==
  LET total_matches == h + m + l
  IN  IF total_matches > 0
        THEN Frac(h * 100 + m * 50, total_matches)
        ELSE IF g > 0 THEN Frac(50, 1) ELSE Frac(0, 1)

\* score >= k for an integer k.
score_ge(score, k) == score.num >= k * score.den

\* risk_level_of with the Medium test written "score > 50".
risk_level_of_strict(score) ==
  IF score_ge(score, 70) THEN "High"
  ELSE IF score.num > 50 * score.den THEN "Medium"
  ELSE "Low"

\* The risk level of a category score.
risk_level_of(score) ==
  IF score_ge(score, 70) THEN "High"
  ELSE IF score_ge(score, 30) THEN "Medium"
  ELSE "Low"

\* category.replace('_', ' ')
replace_underscore(c) ==
  CASE c = "data_collection" -> "data collection"
    [] c = "data_sharing" -> "data sharing"
    [] c = "data_security" -> "data security"
    [] c = "user_rights" -> "user rights"
    [] c = "liability" -> "liability"
    [] c = "policy_changes" -> "policy changes"

\* The if/elif chains on the category inside each risk-level branch: the
\* sentence appended for (category, risk level); nothing is appended for a
\* category outside the chain.
explanation(c, level) ==
  IF level = "High" THEN
    CASE c = "data_collection" -> <<"Extensive data collection with limited transparency.">>
      [] c = "data_sharing" -> <<"Broad rights to share data with third parties.">>
      [] c = "data_security" -> <<"Limited security guarantees or disclaimers of responsibility.">>
      [] c = "user_rights" -> <<"Limited user control over personal data.">>
      [] c = "liability" -> <<"Broad liability disclaimers and limitations.">>
      [] c = "policy_changes" -> <<"Changes can be made without explicit notification.">>
      [] OTHER -> <<>>
  ELSE IF level = "Medium" THEN
    CASE c = "data_collection" -> <<"Standard data collection practices with some transparency.">>
      [] c = "data_sharing" -> <<"Some data sharing with third parties with partial limitations.">>
      [] c = "data_security" -> <<"Standard security measures mentioned but with limitations.">>
      [] c = "user_rights" -> <<"Some user rights acknowledged but may be limited.">>
      [] c = "liability" -> <<"Some liability limitations but not overly broad.">>
      [] c = "policy_changes" -> <<"Changes may be made with some form of notification.">>
      [] OTHER -> <<>>
  ELSE
    CASE c = "data_collection" -> <<"Minimal data collection or strong transparency practices.">>
      [] c = "data_sharing" -> <<"Restrictive data sharing policies or strong user controls.">>
      [] c = "data_security" -> <<"Strong security measures and commitments.">>
      [] c = "user_rights" -> <<"Strong user rights and control over personal data.">>
      [] c = "liability" -> <<"Reasonable liability terms with user protections.">>
      [] c = "policy_changes" -> <<"Clear notification process for policy changes.">>
      [] OTHER -> <<>>

\* count_statement with the Medium branch testing and printing the high-risk
\* count.
count_statement_copied(c, level, h, m, l) ==
  IF level = "High" \/ level = "Medium" THEN
    IF h > 0
      THEN <<"Found " \o ToString(h) \o " high-risk clauses related to "
             \o replace_underscore(c) \o ".">>
      ELSE <<>>
  ELSE
    IF l > 0
      THEN <<"Found " \o ToString(l) \o " low-risk clauses related to "
             \o replace_underscore(c) \o ".">>
      ELSE <<>>

\* The count statement appended first in a risk-level branch when the count
\* tested by that branch is positive.
count_statement(c, level, h, m, l) ==
  IF level = "High" THEN
    IF h > 0
      THEN <<"Found " \o ToString(h) \o " high-risk clauses related to "
             \o replace_underscore(c) \o ".">>
      ELSE <<>>
  ELSE IF level = "Medium" THEN
    IF m > 0
      THEN <<"Found " \o ToString(m) \o " medium-risk clauses related to "
             \o replace_underscore(c) \o ".">>
      ELSE <<>>
  ELSE
    IF l > 0
      THEN <<"Found " \o ToString(l) \o " low-risk clauses related to "
             \o replace_underscore(c) \o ".">>
      ELSE <<>>

\* compile_findings appending the explanatory sentence only after a count
\* statement, so that the two fallback messages are reached.
compile_findings_fallbacks(c, level, h, m, l, g) ==
  LET count == count_statement(c, level, h, m, l)
      branch == IF count = <<>> THEN <<>> ELSE count \o explanation(c, level)
  IN  IF branch /= <<>> THEN branch
      ELSE IF g > 0
        THEN <<"Found general clauses related to " \o replace_underscore(c)
                 \o " but couldn't determine specific risk level.">>
        ELSE <<"No specific clauses related to " \o replace_underscore(c)
                 \o " were identified.">>

\* The findings list of a category.
compile_findings(c, level, h, m, l, g) ==
  LET branch == count_statement(c, level, h, m, l) \o explanation(c, level)
      general_fallback ==
        IF branch = <<>> /\ g > 0
          THEN branch \o <<"Found general clauses related to "
                 \o replace_underscore(c)
                 \o " but couldn't determine specific risk level.">>
          ELSE branch
  IN  IF general_fallback = <<>> /\ g = 0
        THEN general_fallback \o <<"No specific clauses related to "
               \o replace_underscore(c) \o " were identified.">>
        ELSE general_fallback

\* The slice seq[:n].
slice_to(seq, n) ==
  IF n <= 0 THEN <<>>
  ELSE IF n >= Len(seq) THEN seq
  ELSE SubSeq(seq, 1, n)

\* extract_clauses taking up to 3 of every tier it consults, without
\* subtracting what is already collected.
extract_clauses_unsubtracted(ml) ==
  LET e1 == slice_to(ml["high_risk"], 3)
      e2 == IF Len(e1) < 3 THEN e1 \o slice_to(ml["medium_risk"], 3) ELSE e1
      e3 == IF Len(e2) < 3 THEN e2 \o slice_to(ml["low_risk"], 3) ELSE e2
  IN  IF Len(e3) < 3 THEN e3 \o slice_to(ml["general"], 3) ELSE e3

\* The extracted clauses of a category, as positions of the document.
extract_clauses(ml) ==
  LET e1 == slice_to(ml["high_risk"], 3)
      e2 == IF Len(e1) < 3
              THEN e1 \o slice_to(ml["medium_risk"], 3 - Len(e1)) ELSE e1
      e3 == IF Len(e2) < 3
              THEN e2 \o slice_to(ml["low_risk"], 3 - Len(e2)) ELSE e2
  IN  IF Len(e3) < 3
        THEN e3 \o slice_to(ml["general"], 3 - Len(e3)) ELSE e3

\* The dictionary analyze_document starts from.
initial_results ==
  [c \in Categories |->
    [score |-> Frac(0, 1), risk_level |-> "",
     findings |-> <<>>, extracted_clauses |-> <<>>]]

\* One iteration of "for category, pattern_set in patterns.items()": the
\* match lists (ml), the positions of the extracted clauses (pos) and the
\* entry stored in results[category] (entry).
analyze_category(c, sents) ==
  LET ml == match_lists(c, sents)
      h == Len(ml["high_risk"])
      m == Len(ml["medium_risk"])
      l == Len(ml["low_risk"])
      g == Len(ml["general"])
      score == Score(h, m, l, g)
      level == risk_level_of(score)
      pos == extract_clauses(ml)
  IN  [ml |-> ml,
       pos |-> pos,
       entry |->
         [score |-> score,
          risk_level |-> level,
          findings |-> compile_findings(c, level, h, m, l, g),
          extracted_clauses |-> [k \in 1..Len(pos) |-> sents[pos[k]]]]]

RECURSIVE GCD(_, _)
GCD(a, b) == IF b = 0 THEN a ELSE GCD(b, a % b)

\* A fraction in lowest terms.
reduce(f) ==
  LET d == GCD(f.num, f.den)
  IN  IF d = 0 THEN f ELSE Frac(f.num \div d, f.den \div d)

frac_add(a, b) == reduce(Frac(a.num * b.den + b.num * a.den, a.den * b.den))

\* sum(risk_scores) over the first n categories of the result.
RECURSIVE sum_scores(_, _)
sum_scores(res, n) ==
  IF n = 0 THEN Frac(0, 1)
  ELSE frac_add(sum_scores(res, n - 1), res[CategoryOrder[n]].score)

\* The mean taken over the categories with a positive score only.
overall_score_nonzero(res) ==
  LET s == sum_scores(res, Len(CategoryOrder))
      n == Cardinality({c \in Categories : res[c].score.num > 0})
  IN  IF n = 0 THEN Frac(0, 1) ELSE reduce(Frac(s.num, s.den * n))

\* overall_score = sum(risk_scores) / len(risk_scores)
overall_score_of(res) ==
  LET s == sum_scores(res, Len(CategoryOrder))
  IN  reduce(Frac(s.num, s.den * Len(CategoryOrder)))

\* The overall risk level.
overall_risk_of(score) ==
  IF score_ge(score, 70) THEN "High"
  ELSE IF score_ge(score, 30) THEN "Medium"
  ELSE "Low"

\* The documents: every sequence of at most MaxSentences sentences.
Documents == UNION {[1..n -> 1..Len(Pool)] : n \in 0..MaxSentences}

\* Largest number of sentences of a document analysed by repeated calls.
MaxCallSentences == 2

\* The sentence texts of the documents analysed by repeated calls.
CallPool == {1, 4, 8}

CallDocuments == UNION {[1..n -> CallPool] : n \in 0..MaxCallSentences}

\* The pattern table without its last category.
pattern_keys_short == (DOMAIN patterns) \ {"policy_changes"}

\* The categories "for category, pattern_set in patterns.items()" visits.
pattern_keys == DOMAIN patterns

\* A findings list that is not emptied: it still holds what was left in it.
kept_findings(left) == left

\* "findings = []": the list a category's findings are appended to, whatever
\* an earlier call left in the findings of that category.
new_findings(left) == <<>>

VARIABLES
  pc,             \* "input", "analyzed" (analyze_document returned), "displayed"
  sentences,      \* sent_tokenize(text) of the document being analysed
  matches,        \* per category and tier, the positions in the match list
  clause_pos,     \* per category, the positions the extracted clauses came from
  results,        \* the dictionary analyze_document returns
  result_keys,    \* the keys of that dictionary, in order
  overall_score,  \* display_analysis_results
  overall_risk,
  remembered      \* the text and result of the first of several calls

vars ==
  <<pc, sentences, matches, clause_pos, results, result_keys,
    overall_score, overall_risk, remembered>>

no_matches == [c \in Categories |-> [t \in Tiers |-> <<>>]]

\* No call is remembered.
nothing_remembered ==
  [set |-> FALSE, doc |-> <<>>, results |-> initial_results, other |-> FALSE]

Init ==
  /\ pc = "input"
  /\ sentences = <<>>
  /\ matches = no_matches
  /\ clause_pos = [c \in Categories |-> <<>>]
  /\ results = initial_results
  /\ result_keys = <<>>
  /\ overall_score = Frac(0, 1)
  /\ overall_risk = ""
  /\ remembered = nothing_remembered

\* The body of analyze_document(text), for the text whose sentences are doc:
\* the dictionary is built, every category of the pattern table is analysed
\* and its entry stored.
call_analyze_document(doc) ==
  /\ sentences' = doc
  /\ LET run == [c \in pattern_keys |-> analyze_category(c, doc)]
     IN  /\ matches' =
               [c \in Categories |->
                 IF c \in pattern_keys THEN run[c].ml ELSE no_matches[c]]
         /\ clause_pos' =
               [c \in Categories |->
                 IF c \in pattern_keys THEN run[c].pos ELSE <<>>]
         /\ results' =
               [c \in DOMAIN initial_results |->
                 IF c \in pattern_keys
                   THEN [run[c].entry EXCEPT
                           !.findings = new_findings(results[c].findings) \o @]
                   ELSE initial_results[c]]
  /\ result_keys' = CategoryOrder

\* analyze_document(text), called by main.
analyze_document(doc) ==
  /\ pc = "input"
  /\ pc' = "analyzed"
  /\ call_analyze_document(doc)
  /\ UNCHANGED <<overall_score, overall_risk, remembered>>

\* analyze_document(text) called once more after it returned.  The first
\* call is remembered, and whether a different text was analysed since.
analyze_again(doc) ==
  /\ pc = "analyzed"
  /\ pc' = "analyzed"
  /\ remembered' =
       IF remembered.set
         THEN [remembered EXCEPT !.other = @ \/ (doc /= remembered.doc)]
         ELSE [set |-> TRUE, doc |-> sentences, results |-> results,
               other |-> (doc /= sentences)]
  /\ call_analyze_document(doc)
  /\ UNCHANGED <<overall_score, overall_risk>>

\* The overall assessment of display_analysis_results(results, document_text).
display_analysis_results ==
  /\ pc = "analyzed"
  /\ pc' = "displayed"
  /\ overall_score' = overall_score_of(results)
  /\ overall_risk' = overall_risk_of(overall_score')
  /\ UNCHANGED <<sentences, matches, clause_pos, results, result_keys, remembered>>

\* The script is run again for the next interaction: nothing of the last run
\* is kept.
rerun ==
  /\ pc = "displayed"
  /\ pc' = "input"
  /\ sentences' = <<>>
  /\ matches' = no_matches
  /\ clause_pos' = [c \in Categories |-> <<>>]
  /\ results' = initial_results
  /\ result_keys' = <<>>
  /\ overall_score' = Frac(0, 1)
  /\ overall_risk' = ""
  /\ UNCHANGED remembered

\* main, on the Analyze button with a document provided: the document is
\* analysed.
main_analyze ==
  /\ pc = "input"
  /\ \E doc \in Documents : analyze_document(doc)

Next ==
  \/ main_analyze
  \/ display_analysis_results
  \/ rerun

Spec == Init /\ [][Next]_vars

\* A caller of analyze_document: the first call ...
caller_first ==
  /\ pc = "input"
  /\ \E doc \in CallDocuments : analyze_document(doc)

\* ... and any number of further calls, on the same or on other texts.
caller_again ==
  /\ pc = "analyzed"
  /\ \E doc \in CallDocuments : analyze_again(doc)

NextCalls ==
  \/ caller_first
  \/ caller_again

SpecCalls == Init /\ [][NextCalls]_vars

\* The match counts of category c in the current run.
high_risk_count(c) == Len(matches[c]["high_risk"])
medium_risk_count(c) == Len(matches[c]["medium_risk"])
low_risk_count(c) == Len(matches[c]["low_risk"])
general_count(c) == Len(matches[c]["general"])

Analysed == pc \in {"analyzed", "displayed"}

(***************************************************************************)
(* Scoring and classification                                              *)
(***************************************************************************)

\* C1: for every category the stored score is (100*h + 50*m) / (h + m + l)
\* when h + m + l > 0, 50 when h + m + l = 0 and g > 0, and 0 when no tier
\* matched; no score is the result of a division by zero.
C1_ScoreFormula ==
  Analysed =>
    \A c \in Categories :
      LET h == high_risk_count(c)
          m == medium_risk_count(c)
          l == low_risk_count(c)
          g == general_count(c)
          score == results[c].score
      IN  /\ score.den > 0
          /\ (h + m + l > 0) =>
               score.num * (h + m + l) = (100 * h + 50 * m) * score.den
          /\ (h + m + l = 0 /\ g > 0) => score.num = 50 * score.den
          /\ (h = 0 /\ m = 0 /\ l = 0 /\ g = 0) => score.num = 0

\* A run in which the three cases of the score occur together, the first
\* with a quotient that is not an integer.
C1_Witness ==
  /\ Analysed
  /\ \E c \in Categories :
       /\ high_risk_count(c) + medium_risk_count(c) + low_risk_count(c) = 3
       /\ high_risk_count(c) = 1
       /\ results[c].score = Frac(100, 3)
  /\ \E c \in Categories :
       /\ high_risk_count(c) + medium_risk_count(c) + low_risk_count(c) = 0
       /\ general_count(c) > 0
  /\ \E c \in Categories :
       /\ high_risk_count(c) + medium_risk_count(c) + low_risk_count(c) = 0
       /\ general_count(c) = 0

\* score_ge and its companions on the stored fractions.
InRange(score) == score.den > 0 /\ 0 <= score.num /\ score.num <= 100 * score.den

AgreesWithThresholds(level, score) ==
  /\ level \in RiskLevels
  /\ (level = "High") <=> (score.num >= 70 * score.den)
  /\ (level = "Medium") <=>
       (score.num >= 30 * score.den /\ score.num < 70 * score.den)
  /\ (level = "Low") <=> (score.num < 30 * score.den)

\* C2: every category score lies in [0,100]; every category risk level and
\* the overall risk level is Low, Medium or High and is the one the
\* thresholds 70 and 30 give for its score.
C2_RangeAndThresholds ==
  /\ Analysed =>
       \A c \in Categories :
         /\ InRange(results[c].score)
         /\ AgreesWithThresholds(results[c].risk_level, results[c].score)
  /\ (pc = "displayed") => AgreesWithThresholds(overall_risk, overall_score)

\* A displayed run with a High, a Medium and a Low category, one of them
\* Medium at a score of exactly 50.
C2_Witness ==
  /\ pc = "displayed"
  /\ \E c \in Categories : results[c].risk_level = "High"
  /\ \E c \in Categories :
       results[c].risk_level = "Medium" /\ results[c].score = Frac(50, 1)
  /\ \E c \in Categories :
       results[c].risk_level = "Low" /\ results[c].score.num > 0

(***************************************************************************)
(* Findings                                                                *)
(***************************************************************************)

\* The count of the tier named by the risk level assigned to c.
DominantCount(c) ==
  IF results[c].risk_level = "High" THEN high_risk_count(c)
  ELSE IF results[c].risk_level = "Medium" THEN medium_risk_count(c)
  ELSE low_risk_count(c)

NoTierMatched(c) ==
  /\ high_risk_count(c) = 0
  /\ medium_risk_count(c) = 0
  /\ low_risk_count(c) = 0
  /\ general_count(c) = 0

\* C3: a category in which no sentence matched any tier has score 0, risk
\* level Low and the single finding "No specific clauses related to
\* <category> were identified."
C3_NoMatchFinding ==
  Analysed =>
    \A c \in Categories :
      NoTierMatched(c) =>
        /\ results[c].score.num = 0
        /\ results[c].risk_level = "Low"
        /\ results[c].findings =
             <<"No specific clauses related to " \o replace_underscore(c)
                 \o " were identified.">>

\* C4: a category whose dominant-tier count is zero while the general tier
\* matched has the single finding "Found general clauses related to
\* <category> but couldn't determine specific risk level."
C4_GeneralFallbackFinding ==
  Analysed =>
    \A c \in Categories :
      (DominantCount(c) = 0 /\ general_count(c) > 0) =>
        results[c].findings =
          <<"Found general clauses related to " \o replace_underscore(c)
              \o " but couldn't determine specific risk level.">>

LevelWord(level) ==
  CASE level = "High" -> "high"
    [] level = "Medium" -> "medium"
    [] level = "Low" -> "low"

\* C7: when the count N of the tier named by the assigned risk level is
\* positive, the findings are exactly the count statement "Found N
\* <level>-risk clauses related to <category>." followed by the explanatory
\* sentence of (category, risk level), whatever the other counts are.
C7_CountThenExplanation ==
  Analysed =>
    \A c \in Categories :
      DominantCount(c) > 0 =>
        /\ Len(results[c].findings) = 2
        /\ results[c].findings[1] =
             "Found " \o ToString(DominantCount(c)) \o " "
               \o LevelWord(results[c].risk_level)
               \o "-risk clauses related to " \o replace_underscore(c) \o "."
        /\ <<results[c].findings[2]>> = explanation(c, results[c].risk_level)

\* A run with a Medium category counting its medium matches while its
\* general tier matched more often, a High category, and a Low category
\* counting its low matches while its high tier matched too.
C7_Witness ==
  /\ Analysed
  /\ \E c \in Categories :
       /\ results[c].risk_level = "Medium"
       /\ medium_risk_count(c) > 0
       /\ general_count(c) > medium_risk_count(c)
  /\ \E c \in Categories :
       results[c].risk_level = "High" /\ high_risk_count(c) > 1
  /\ \E c \in Categories :
       /\ results[c].risk_level = "Low"
       /\ high_risk_count(c) > 0
       /\ low_risk_count(c) > high_risk_count(c)

(***************************************************************************)
(* Clause extraction                                                       *)
(***************************************************************************)

\* The number of entries of seq equal to x.
Occurrences(seq, x) == Cardinality({k \in 1..Len(seq) : seq[k] = x})

\* The tiers of category c whose match list contains position pos.
TiersContaining(c, pos) ==
  {t \in Tiers : \E k \in 1..Len(matches[c][t]) : matches[c][t][k] = pos}

\* The extracted clauses stored in the result are the texts of the sentences
\* at the recorded positions.
ClausesAtPositions(c) ==
  /\ Len(results[c].extracted_clauses) = Len(clause_pos[c])
  /\ \A k \in 1..Len(clause_pos[c]) :
       results[c].extracted_clauses[k] = sentences[clause_pos[c][k]]

AllMatches(c) ==
  matches[c]["high_risk"] \o matches[c]["medium_risk"]
    \o matches[c]["low_risk"] \o matches[c]["general"]

\* C6: the extracted clauses of a category are the first min(3, h+m+l+g)
\* elements of highMatches ++ mediumMatches ++ lowMatches ++ generalMatches,
\* so never more than 3.
C6_PrefixOfConcatenation ==
  Analysed =>
    \A c \in Categories :
      LET all == AllMatches(c)
          n == IF Len(all) < 3 THEN Len(all) ELSE 3
      IN  /\ Len(results[c].extracted_clauses) = n
          /\ Len(clause_pos[c]) = n
          /\ \A k \in 1..n :
               /\ clause_pos[c][k] = all[k]
               /\ results[c].extracted_clauses[k] = sentences[all[k]]

\* A run in which one category fills its three clauses from the high tier
\* alone although its general tier matched, and another takes one clause
\* from each of the medium, low and general tiers.
C6_Witness ==
  /\ Analysed
  /\ \E c \in Categories :
       /\ high_risk_count(c) >= 3
       /\ general_count(c) > 0
       /\ clause_pos[c] = SubSeq(matches[c]["high_risk"], 1, 3)
  /\ \E c \in Categories :
       /\ high_risk_count(c) = 0
       /\ medium_risk_count(c) = 1
       /\ low_risk_count(c) = 1
       /\ general_count(c) = 1
       /\ Len(clause_pos[c]) = 3

(***************************************************************************)
(* Scenario 3, monotonicity, overall score                                 *)
(***************************************************************************)

\* The document "We use advanced encryption and conduct regular audits."
Scenario3 == Analysed /\ sentences = <<1>>

\* C8 as stated: for scenario 3, data_security has h = 0, m = 0, l = 1,
\* score 0 and risk level Low.
C8_Scenario3Stated ==
  Scenario3 =>
    /\ high_risk_count("data_security") = 0
    /\ medium_risk_count("data_security") = 0
    /\ low_risk_count("data_security") = 1
    /\ results["data_security"].score.num = 0
    /\ results["data_security"].risk_level = "Low"

\* C8 amended: for scenario 3, data_security has h = 0, m = 1 (the medium
\* pattern "encryption" matches too), l = 1, so its score is 50/2 = 25 and
\* its risk level is Low.
C8_Scenario3 ==
  Scenario3 =>
    /\ high_risk_count("data_security") = 0
    /\ medium_risk_count("data_security") = 1
    /\ low_risk_count("data_security") = 1
    /\ results["data_security"].score.den > 0
    /\ results["data_security"].score.num = 25 * results["data_security"].score.den
    /\ results["data_security"].risk_level = "Low"

\* Scenario 3 has been analysed and its sentence is in the medium and the
\* low match list of data_security.
C8_Witness ==
  /\ Scenario3
  /\ matches["data_security"]["medium_risk"] = <<1>>
  /\ matches["data_security"]["low_risk"] = <<1>>

\* a <= b for scores.
score_le(a, b) == a.num * b.den <= b.num * a.den

\* C9: with h, m and g as counted, one more low-tier match never gives a
\* higher score: the score for (h, m, l + 1) is at most the stored score for
\* (h, m, l), the stored score is at most the score for (h, m, l - 1), and
\* the same holds from every other low count up to the document length.
C9_LowMatchesNeverRaise ==
  Analysed =>
    \A c \in Categories :
      LET h == high_risk_count(c)
          m == medium_risk_count(c)
          l == low_risk_count(c)
          g == general_count(c)
      IN  /\ results[c].score.den > 0
          /\ score_le(Score(h, m, l + 1, g), results[c].score)
          /\ l > 0 => score_le(results[c].score, Score(h, m, l - 1, g))
          /\ \A l2 \in 0..MaxSentences :
               score_le(Score(h, m, l2 + 1, g), Score(h, m, l2, g))

\* A run with a category at the fallback 50 (only the general tier matched,
\* one low match would bring it to 0), one with no match at all, and one
\* whose score a further low match lowers strictly.
C9_Witness ==
  /\ Analysed
  /\ \E c \in Categories :
       /\ high_risk_count(c) + medium_risk_count(c) + low_risk_count(c) = 0
       /\ general_count(c) > 0
       /\ results[c].score = Frac(50, 1)
  /\ \E c \in Categories : NoTierMatched(c)
  /\ \E c \in Categories :
       /\ high_risk_count(c) > 0
       /\ low_risk_count(c) > 0
       /\ ~score_le(results[c].score,
                    Score(high_risk_count(c), medium_risk_count(c),
                          low_risk_count(c) + 1, general_count(c)))

\* The least common multiple of the denominators of the category scores.
RECURSIVE LCMDen(_)
LCMDen(n) ==
  IF n = 0 THEN 1
  ELSE LET r == LCMDen(n - 1)
           d == results[CategoryOrder[n]].score.den
       IN  (r * d) \div GCD(r, d)

\* The sum of the category scores, in units of 1 / LCMDen(6).
RECURSIVE ScaledSum(_)
ScaledSum(n) ==
  IF n = 0 THEN 0
  ELSE ScaledSum(n - 1)
         + results[CategoryOrder[n]].score.num
             * (LCMDen(6) \div results[CategoryOrder[n]].score.den)

\* C10: the overall score is the sum of the six category scores divided by 6
\* and the overall risk level is High iff it is >= 70, Medium iff it is >= 30
\* and < 70, Low iff it is < 30.
C10_OverallMean ==
  (pc = "displayed") =>
    /\ overall_score.den > 0
    /\ overall_score.num * 6 * LCMDen(6) = ScaledSum(6) * overall_score.den
    /\ AgreesWithThresholds(overall_risk, overall_score)

\* A displayed run whose categories differ in match count and score: one
\* category with a single match at 100, one with several matches below 100,
\* and some at 0, with an overall score that is not an integer.
C10_Witness ==
  /\ pc = "displayed"
  /\ \E c \in Categories :
       /\ results[c].score = Frac(100, 1)
       /\ high_risk_count(c) = 1
  /\ \E c \in Categories :
       /\ high_risk_count(c) + medium_risk_count(c) + low_risk_count(c) > 2
       /\ results[c].score.num > 0
  /\ \E c \in Categories : results[c].score.num = 0
  /\ overall_score.den > 1

(***************************************************************************)
(* Empty input                                                             *)
(***************************************************************************)

\* C11: for a text with zero sentences the analysis completes: every
\* category has score 0 (no division by zero), risk level Low and no
\* extracted clauses, and the overall score is 0 with risk level Low.
C11_EmptyInput ==
  /\ (Analysed /\ sentences = <<>>) =>
       \A c \in Categories :
         /\ results[c].score.den > 0
         /\ results[c].score.num = 0
         /\ results[c].risk_level = "Low"
         /\ results[c].extracted_clauses = <<>>
  /\ (pc = "displayed" /\ sentences = <<>>) =>
       /\ overall_score.den > 0
       /\ overall_score.num = 0
       /\ overall_risk = "Low"

\* The empty document has been analysed and displayed.
C11_Witness ==
  /\ pc = "displayed"
  /\ sentences = <<>>
  /\ \A c \in Categories : NoTierMatched(c)

(***************************************************************************)
(* The result dictionary                                                   *)
(***************************************************************************)

\* C12: the keys of the returned dictionary are exactly the six categories,
\* in declaration order, and every one of them has been assigned a score, a
\* risk level among Low, Medium, High (not the initial empty string), a
\* findings list and an extracted_clauses list.
C12_AllCategoriesAssigned ==
  Analysed =>
    /\ result_keys =
         <<"data_collection", "data_sharing", "data_security",
           "user_rights", "liability", "policy_changes">>
    /\ DOMAIN results = {result_keys[k] : k \in 1..Len(result_keys)}
    /\ \A c \in DOMAIN results :
         /\ DOMAIN results[c] =
              {"score", "risk_level", "findings", "extracted_clauses"}
         /\ InRange(results[c].score)
         /\ results[c].risk_level \in {"Low", "Medium", "High"}
         /\ results[c].findings /= <<>>
         /\ ClausesAtPositions(c)

\* A returned result in which the last category of the table has matches and
\* the first has none.
C12_Witness ==
  /\ pc = "analyzed"
  /\ Len(result_keys) = 6
  /\ high_risk_count("policy_changes") > 0
  /\ results["policy_changes"].risk_level = "High"
  /\ NoTierMatched("data_collection")
  /\ results["data_collection"].risk_level = "Low"

SomePatternMatches(c, t, s) ==
  \E k \in 1..Len(patterns[c][t]) : re_search(patterns[c][t][k], s)

TierHits(c, s) ==
  [high_risk |-> SomePatternMatches(c, "high_risk", s),
   medium_risk |-> SomePatternMatches(c, "medium_risk", s),
   low_risk |-> SomePatternMatches(c, "low_risk", s),
   general |-> SomePatternMatches(c, "general", s)]

SentenceHits(s) ==
  [data_collection |-> TierHits("data_collection", s),
   data_sharing |-> TierHits("data_sharing", s),
   data_security |-> TierHits("data_security", s),
   user_rights |-> TierHits("user_rights", s),
   liability |-> TierHits("liability", s),
   policy_changes |-> TierHits("policy_changes", s)]

RECURSIVE PoolHits(_)
PoolHits(n) ==
  IF n = 0 THEN <<>> ELSE Append(PoolHits(n - 1), SentenceHits(Pool[n]))

\* SomePatternMatches for every sentence text of the pool.
Hits == PoolHits(Len(Pool))

\* C14: for every category, tier and sentence position, the position is in
\* the tier's match list exactly once if some pattern of that tier matches
\* the sentence and not at all otherwise, whatever the other tiers do; so
\* the list is in document order and no longer than the document.
C14_OncePerTierAndSentence ==
  Analysed =>
    \A c \in Categories : \A t \in Tiers :
      LET list == matches[c][t]
      IN  /\ \A k \in 1..Len(list) : list[k] \in 1..Len(sentences)
          /\ \A k \in 1..(Len(list) - 1) : list[k] < list[k + 1]
          /\ Len(list) <= Len(sentences)
          /\ \A pos \in 1..Len(sentences) :
               Occurrences(list, pos) =
                 IF Hits[sentences[pos]][c][t] THEN 1 ELSE 0

\* A document whose first and third sentence are in the high, the low and
\* the general list of one category at once while the second is in none of
\* them, and whose second sentence, matched by two low patterns of another
\* category, is in that low list once.
C14_Witness ==
  /\ Analysed
  /\ Len(sentences) = 3
  /\ \E c \in Categories :
       /\ matches[c]["high_risk"] = <<1, 3>>
       /\ matches[c]["low_risk"] = <<1, 3>>
       /\ matches[c]["general"] = <<1, 3>>
  /\ \E c \in Categories :
       /\ matches[c]["low_risk"] = <<2>>
       /\ Cardinality({k \in 1..Len(patterns[c]["low_risk"]) :
            re_search(patterns[c]["low_risk"][k], Pool[sentences[2]])}) = 2

(***************************************************************************)
(* Shape of the findings                                                   *)
(***************************************************************************)

====
